---- MODULE Spec2Model ----
(***************************************************************************)
(* Model of pipelinewise-tap-s3-csv:                                       *)
(*   - the stream synchronization orchestrator of tap_s3_csv/__init__.py   *)
(*     (do_discover, stream_is_selected, do_sync, do_sync_run), and        *)
(*   - the type-inference engine of tap_s3_csv/conversion.py               *)
(*     (generate_schema, _csv2bytesio).                                    *)
(*                                                                         *)
(* Python values are encoded as follows.                                   *)
(*   - a str is a sequence of tokens, so that "+" is \o and "" is <<>>:    *)
(*     "orders" + "_suffix" = <<"orders">> \o <<"_suffix">>                *)
(*   - a dict is a function; d.get(k, default) is Get(d, k, default)       *)
(*   - an Optional is None (<<>>) or Some(x) (<<x>>)                       *)
(*   - the reference table_spec is the position of the dict it refers to   *)
(*     in config["tables"]; Unbound (0) is the local variable before its   *)
(*     first assignment                                                    *)
(*                                                                         *)
(* Line 108 of __init__.py reads `do_discover(config: Dict)`; it is        *)
(* modelled as the call do_discover(config) it stands for.                 *)
(***************************************************************************)
EXTENDS Integers, Sequences, FiniteSets, TLC

VARIABLES
    config,       \* the tap configuration (a dict)
    catalogArg,   \* the catalog argument of the entry points (Optional)
    stateArg,     \* the state argument of the entry points (Optional)
    discovered,   \* what discover_streams(config) returns
    file,         \* the content of catalog.json (Optional)
    entry,        \* the entry point being executed
    pc,           \* position in the entry point's code
    catalog,      \* local variable catalog (Optional)
    state,        \* local variable state (Optional)
    i,            \* position of the loop variable stream in catalog["streams"]
    table_spec,   \* local variable table_spec
    log,          \* calls made so far to write_state, write_schema, sync_stream
    outcome,      \* how the entry point ended
    finished,     \* the runs completed so far
    samples,      \* argument samples of generate_schema
    gs_table_spec,\* argument table_spec of generate_schema
    result        \* what generate_schema returned (Optional)

vars == <<config, catalogArg, stateArg, discovered, file, entry, pc, catalog,
          state, i, table_spec, log, outcome, finished, samples, gs_table_spec,
          result>>

inputs == <<config, catalogArg, stateArg, discovered>>

\* the variables of the orchestrator, and those of the type inference
sync_vars == <<config, catalogArg, stateArg, discovered, file, entry, catalog,
               state, i, table_spec, log, outcome, finished>>
conv == <<samples, gs_table_spec, result>>

(***************************************************************************)
(* Bounds                                                                  *)
(***************************************************************************)
MaxTables == 2
MaxStreams == 2
MaxSamples == 2

(***************************************************************************)
(* Python values                                                           *)
(***************************************************************************)
None == <<>>
Some(x) == <<x>>
Unbound == 0

Get(d, k, default) == IF k \in DOMAIN d THEN d[k] ELSE default

SeqsUpTo(S, n) == UNION {[1..m -> S] : m \in 0..n}

(***************************************************************************)
(* Input domains                                                           *)
(***************************************************************************)
TableNames == {<<"orders">>, <<"orders", "_suffix">>}
StreamIds == {<<"orders">>, <<"orders", "_suffix">>}
Root == <<>>

\* stream["metadata"]: a list of {breadcrumb, metadata} entries; the first
\* choice has no root entry
MetadataChoices ==
    { <<[breadcrumb |-> <<"properties", "id">>, metadata |-> [selected |-> FALSE]]>>,
      <<[breadcrumb |-> Root, metadata |-> [selected |-> TRUE]]>>,
      <<[breadcrumb |-> Root, metadata |-> [selected |-> FALSE]]>> }

Streams == [tap_stream_id : StreamIds, metadata : MetadataChoices]

TableSpecs == [table_name : TableNames]

Configs ==
    { [tables |-> t] : t \in SeqsUpTo(TableSpecs, MaxTables) }
    \cup { [tables |-> t, table_suffix |-> <<"_suffix">>] :
             t \in SeqsUpTo(TableSpecs, MaxTables) }

WithWarning(c) ==
    { c } \cup { [k \in DOMAIN c \cup {"warning_if_no_files"} |->
                    IF k = "warning_if_no_files" THEN w ELSE c[k]] : w \in BOOLEAN }

States == { {<<"users">>} }

\* streams built by discovery carry a root metadata entry without `selected`
DiscoveredStreams ==
    [tap_stream_id : StreamIds, metadata : {<<[breadcrumb |-> Root, metadata |-> <<>>]>>}]

(***************************************************************************)
(* Helpers of the orchestrator                                             *)
(***************************************************************************)
\* metadata.to_map(stream["metadata"]): breadcrumb -> metadata, the last
\* entry of a breadcrumb winning
to_map(raw) ==
    [b \in {raw[j].breadcrumb : j \in DOMAIN raw} |->
        raw[CHOOSE j \in DOMAIN raw :
                /\ raw[j].breadcrumb = b
                /\ \A k \in DOMAIN raw : raw[k].breadcrumb = b => k <= j].metadata]

\* mutant: the default of `selected` is False
stream_is_selected_DefaultFalse(meta_data) ==
    Get(Get(meta_data, Root, <<>>), "selected", FALSE)

\* meta_data.get((), {}).get("selected", True)
stream_is_selected(meta_data) == Get(Get(meta_data, Root, <<>>), "selected", TRUE)

\* the positions of the tables the generator expression of the lookup yields:
\* s["table_name"] + config.get("table_suffix", "") == stream_name
Matches(cfg, stream_name) ==
    { j \in DOMAIN cfg["tables"] :
        cfg["tables"][j].table_name \o Get(cfg, "table_suffix", <<>>) = stream_name }

\* next(...) of that generator: its first element; StopIteration when empty
HasMatch(cfg, stream_name) == Matches(cfg, stream_name) # {}

FirstMatch(cfg, stream_name) ==
    CHOOSE j \in Matches(cfg, stream_name) :
        \A k \in Matches(cfg, stream_name) : j <= k

\* mutant: the default of warning_if_no_files is True
NotTolerant_DefaultTrue(cfg) == ~ Get(cfg, "warning_if_no_files", TRUE)

\* not config.get("warning_if_no_files", False)
NotTolerant(cfg) == ~ Get(cfg, "warning_if_no_files", FALSE)

\* the extraction delegate sync_stream(config, state, table_spec, stream):
\* it records a bookmark for the stream in the state mapping it is given
SyncStreamEffect(st, stream) == Some(st[1] \cup {stream.tap_stream_id})

\* one call of a collaborator, as recorded in log; `at` is the position in the
\* catalog of the stream the loop is processing when the call is made
WriteStateCall(at, st) ==
    [op |-> "write_state", at |-> at, stream_name |-> None, state |-> st,
     table_spec |-> Unbound]

WriteSchemaCall(at, stream) ==
    [op |-> "write_schema", at |-> at, stream_name |-> stream.tap_stream_id,
     state |-> None, table_spec |-> Unbound]

SyncStreamCall(at, st, ts, stream) ==
    [op |-> "sync_stream", at |-> at, stream_name |-> stream.tap_stream_id,
     state |-> st, table_spec |-> ts]

\* the record of a completed run
Run(e, out, lg, st, at) ==
    [entry |-> e, outcome |-> out, log |-> lg, state |-> st, at |-> at]

(***************************************************************************)
(* do_discover                                                             *)
(***************************************************************************)
\* mutant: an empty discovery is fatal also in tolerant mode
do_discover_IgnoresWarning(cfg, streams, f, write_ok) ==
    IF streams = <<>>
    THEN [raised |-> "No streams found", file |-> f]
    ELSE IF write_ok
         THEN [raised |-> "", file |-> Some([streams |-> streams])]
         ELSE [raised |-> "write failed", file |-> f]

\* do_discover(config) with discover_streams(config) = streams, catalog.json
\* holding f, and the write to catalog.json succeeding or not
do_discover(cfg, streams, f, write_ok) ==
    IF streams = <<>>
    THEN IF NotTolerant(cfg)
         THEN [raised |-> "No streams found", file |-> f]
         ELSE [raised |-> "", file |-> f]
    ELSE IF write_ok
         THEN [raised |-> "", file |-> Some([streams |-> streams])]
         ELSE [raised |-> "write failed", file |-> f]

(***************************************************************************)
(* Initial state: the arguments of a call, and catalog.json as an earlier  *)
(* run may have left it                                                    *)
(***************************************************************************)
Init ==
    /\ config \in UNION { WithWarning(c) : c \in Configs }
    /\ stateArg \in {None} \cup { Some(s) : s \in States }
    /\ \/ /\ catalogArg \in { Some([streams |-> ss]) : ss \in SeqsUpTo(Streams, MaxStreams) }
          /\ discovered = <<>>
          /\ file = None
       \/ /\ catalogArg = None
          /\ discovered \in SeqsUpTo(DiscoveredStreams, 1)
          /\ file \in {None} \cup { Some([streams |-> ss]) : ss \in SeqsUpTo(DiscoveredStreams, 1) }
    /\ entry = "none"
    /\ pc = "idle"
    /\ catalog = None
    /\ state = None
    /\ i = 0
    /\ table_spec = Unbound
    /\ log = <<>>
    /\ outcome = "none"
    /\ finished = <<>>
    /\ samples = <<>>
    /\ gs_table_spec = <<>>
    /\ result = None

\* the entry point ends, normally or with the exception `out`
Exit(out) ==
    /\ pc' = "exit"
    /\ outcome' = out
    /\ finished' = Append(finished, Run(entry, out, log, state, i))

(***************************************************************************)
(* do_sync(config, catalog, state)                                         *)
(***************************************************************************)
\* the caller supplies catalog and state (both required)
Call_do_sync ==
    /\ pc = "idle"
    /\ catalogArg # None
    /\ stateArg # None
    /\ entry' = "do_sync"
    /\ pc' = "for"
    /\ catalog' = catalogArg
    /\ state' = stateArg
    /\ i' = 0
    /\ table_spec' = Unbound
    /\ log' = <<>>
    /\ outcome' = "running"
    /\ UNCHANGED <<conv, inputs, file, finished>>

\* lines 68-82: the next stream of the catalog and the lookup of its table
DoSync_Lookup ==
    /\ entry = "do_sync" /\ pc = "for"
    /\ i < Len(catalog[1].streams)
    /\ LET stream_name == catalog[1].streams[i + 1].tap_stream_id IN
         /\ i' = i + 1
         /\ IF HasMatch(config, stream_name)
            THEN /\ table_spec' = FirstMatch(config, stream_name)
                 /\ pc' = "selected"
                 /\ UNCHANGED <<outcome, finished>>
            ELSE /\ table_spec' = table_spec
                 /\ IF NotTolerant(config)
                    THEN /\ pc' = "exit"
                         /\ outcome' = "Expected table not found"
                         /\ finished' = Append(finished,
                               Run(entry, "Expected table not found", log, state, i + 1))
                    ELSE /\ pc' = "selected"
                         /\ UNCHANGED <<outcome, finished>>
    /\ UNCHANGED <<conv, inputs, file, entry, catalog, state, log>>

\* lines 83-85
DoSync_Selected ==
    /\ entry = "do_sync" /\ pc = "selected"
    /\ LET mdata == to_map(catalog[1].streams[i].metadata) IN
         pc' = IF ~ stream_is_selected(mdata) THEN "for" ELSE "write_state"
    /\ UNCHANGED <<conv, inputs, file, entry, catalog, state, i, table_spec, log,
                   outcome, finished>>

\* line 87
DoSync_WriteState ==
    /\ entry = "do_sync" /\ pc = "write_state"
    /\ log' = Append(log, WriteStateCall(i, state))
    /\ pc' = "write_schema"
    /\ UNCHANGED <<conv, inputs, file, entry, catalog, state, i, table_spec, outcome,
                   finished>>

\* lines 88-89
DoSync_WriteSchema ==
    /\ entry = "do_sync" /\ pc = "write_schema"
    /\ log' = Append(log, WriteSchemaCall(i, catalog[1].streams[i]))
    /\ pc' = "sync_stream"
    /\ UNCHANGED <<conv, inputs, file, entry, catalog, state, i, table_spec, outcome,
                   finished>>

\* mutant: the state is emitted again after the extraction
DoSync_SyncStream_ThenWriteState ==
    /\ entry = "do_sync" /\ pc = "sync_stream"
    /\ IF table_spec = Unbound
       THEN /\ Exit("UnboundLocalError")
            /\ UNCHANGED <<state, log>>
       ELSE /\ log' = log \o
                  << SyncStreamCall(i, state, table_spec, catalog[1].streams[i]),
                     WriteStateCall(i, SyncStreamEffect(state, catalog[1].streams[i])) >>
            /\ state' = SyncStreamEffect(state, catalog[1].streams[i])
            /\ pc' = "for"
            /\ UNCHANGED <<outcome, finished>>
    /\ UNCHANGED <<conv, inputs, file, entry, catalog, i, table_spec>>

\* lines 91-93: reading table_spec before any lookup has bound it raises
\* UnboundLocalError
DoSync_SyncStream ==
    /\ entry = "do_sync" /\ pc = "sync_stream"
    /\ IF table_spec = Unbound
       THEN /\ Exit("UnboundLocalError")
            /\ UNCHANGED <<state, log>>
       ELSE /\ log' = Append(log, SyncStreamCall(i, state, table_spec, catalog[1].streams[i]))
            /\ state' = SyncStreamEffect(state, catalog[1].streams[i])
            /\ pc' = "for"
            /\ UNCHANGED <<outcome, finished>>
    /\ UNCHANGED <<conv, inputs, file, entry, catalog, i, table_spec>>

\* mutant: the loop may end before the last stream of the catalog
DoSync_Done_BeforeLast ==
    /\ entry = "do_sync" /\ pc = "for"
    /\ i <= Len(catalog[1].streams)
    /\ Exit("ok")
    /\ UNCHANGED <<conv, inputs, file, entry, catalog, state, i, table_spec, log>>

\* line 95: the loop is exhausted
DoSync_Done ==
    /\ entry = "do_sync" /\ pc = "for"
    /\ i = Len(catalog[1].streams)
    /\ Exit("ok")
    /\ UNCHANGED <<conv, inputs, file, entry, catalog, state, i, table_spec, log>>

(***************************************************************************)
(* do_sync_run(config, catalog, state)                                     *)
(***************************************************************************)
\* called with the same arguments after do_sync has ended, or alone when the
\* caller leaves out the catalog or the state
Call_do_sync_run ==
    /\ \/ pc = "idle" /\ (catalogArg = None \/ stateArg = None)
       \/ pc = "exit" /\ entry = "do_sync"
    /\ entry' = "do_sync_run"
    /\ pc' = IF catalogArg = None THEN "discover" ELSE "state_default"
    /\ catalog' = catalogArg
    /\ state' = stateArg
    /\ i' = 0
    /\ table_spec' = Unbound
    /\ log' = <<>>
    /\ outcome' = "running"
    /\ UNCHANGED <<conv, inputs, file, finished>>

\* lines 107-108: catalog is None, discovery runs
DoSyncRun_Discover ==
    /\ entry = "do_sync_run" /\ pc = "discover"
    /\ \E write_ok \in BOOLEAN :
         LET r == do_discover(config, discovered, file, write_ok) IN
           /\ file' = r.file
           /\ IF r.raised # ""
              THEN Exit(r.raised)
              ELSE /\ pc' = "load"
                   /\ UNCHANGED <<outcome, finished>>
    /\ UNCHANGED <<conv, inputs, entry, catalog, state, i, table_spec, log>>

\* lines 109-115: the catalog is read back from catalog.json
DoSyncRun_Load ==
    /\ entry = "do_sync_run" /\ pc = "load"
    /\ IF file = None
       THEN /\ Exit("load failed")
            /\ UNCHANGED catalog
       ELSE /\ catalog' = file
            /\ pc' = "state_default"
            /\ UNCHANGED <<outcome, finished>>
    /\ UNCHANGED <<conv, inputs, file, entry, state, i, table_spec, log>>

\* mutant: the state starts empty also when the caller supplied one
DoSyncRun_StateDefault_Always ==
    /\ entry = "do_sync_run" /\ pc = "state_default"
    /\ state' = Some({})
    /\ pc' = "for"
    /\ UNCHANGED <<conv, inputs, file, entry, catalog, i, table_spec, log, outcome,
                   finished>>

\* lines 117-118
DoSyncRun_StateDefault ==
    /\ entry = "do_sync_run" /\ pc = "state_default"
    /\ state' = IF state = None THEN Some({}) ELSE state
    /\ pc' = "for"
    /\ UNCHANGED <<conv, inputs, file, entry, catalog, i, table_spec, log, outcome,
                   finished>>

\* lines 120-134: the next stream of the catalog and the lookup of its table
DoSyncRun_Lookup ==
    /\ entry = "do_sync_run" /\ pc = "for"
    /\ i < Len(catalog[1].streams)
    /\ LET stream_name == catalog[1].streams[i + 1].tap_stream_id IN
         /\ i' = i + 1
         /\ IF HasMatch(config, stream_name)
            THEN /\ table_spec' = FirstMatch(config, stream_name)
                 /\ pc' = "selected"
                 /\ UNCHANGED <<outcome, finished>>
            ELSE /\ table_spec' = table_spec
                 /\ IF NotTolerant(config)
                    THEN /\ pc' = "exit"
                         /\ outcome' = "Expected table not found"
                         /\ finished' = Append(finished,
                               Run(entry, "Expected table not found", log, state, i + 1))
                    ELSE /\ pc' = "selected"
                         /\ UNCHANGED <<outcome, finished>>
    /\ UNCHANGED <<conv, inputs, file, entry, catalog, state, log>>

\* mutant: the selection check is left out
DoSyncRun_Selected_Ignored ==
    /\ entry = "do_sync_run" /\ pc = "selected"
    /\ pc' = "write_state"
    /\ UNCHANGED <<conv, inputs, file, entry, catalog, state, i, table_spec, log,
                   outcome, finished>>

\* lines 135-137
DoSyncRun_Selected ==
    /\ entry = "do_sync_run" /\ pc = "selected"
    /\ LET mdata == to_map(catalog[1].streams[i].metadata) IN
         pc' = IF ~ stream_is_selected(mdata) THEN "for" ELSE "write_state"
    /\ UNCHANGED <<conv, inputs, file, entry, catalog, state, i, table_spec, log,
                   outcome, finished>>

\* mutant: the state is not emitted before the schema
DoSyncRun_WriteState_Omitted ==
    /\ entry = "do_sync_run" /\ pc = "write_state"
    /\ pc' = "write_schema"
    /\ UNCHANGED <<conv, inputs, file, entry, catalog, state, i, table_spec, log,
                   outcome, finished>>

\* line 139
DoSyncRun_WriteState ==
    /\ entry = "do_sync_run" /\ pc = "write_state"
    /\ log' = Append(log, WriteStateCall(i, state))
    /\ pc' = "write_schema"
    /\ UNCHANGED <<conv, inputs, file, entry, catalog, state, i, table_spec, outcome,
                   finished>>

\* lines 140-141
DoSyncRun_WriteSchema ==
    /\ entry = "do_sync_run" /\ pc = "write_schema"
    /\ log' = Append(log, WriteSchemaCall(i, catalog[1].streams[i]))
    /\ pc' = "sync_stream"
    /\ UNCHANGED <<conv, inputs, file, entry, catalog, state, i, table_spec, outcome,
                   finished>>

\* lines 143-145
DoSyncRun_SyncStream ==
    /\ entry = "do_sync_run" /\ pc = "sync_stream"
    /\ IF table_spec = Unbound
       THEN /\ Exit("UnboundLocalError")
            /\ UNCHANGED <<state, log>>
       ELSE /\ log' = Append(log, SyncStreamCall(i, state, table_spec, catalog[1].streams[i]))
            /\ state' = SyncStreamEffect(state, catalog[1].streams[i])
            /\ pc' = "for"
            /\ UNCHANGED <<outcome, finished>>
    /\ UNCHANGED <<conv, inputs, file, entry, catalog, i, table_spec>>

\* line 147: the loop is exhausted
DoSyncRun_Done ==
    /\ entry = "do_sync_run" /\ pc = "for"
    /\ i = Len(catalog[1].streams)
    /\ Exit("ok")
    /\ UNCHANGED <<conv, inputs, file, entry, catalog, state, i, table_spec, log>>

(***************************************************************************)
(* Specification                                                           *)
(***************************************************************************)
Next ==
    \/ Call_do_sync
    \/ DoSync_Lookup
    \/ DoSync_Selected
    \/ DoSync_WriteState
    \/ DoSync_WriteSchema
    \/ DoSync_SyncStream
    \/ DoSync_Done
    \/ Call_do_sync_run
    \/ DoSyncRun_Discover
    \/ DoSyncRun_Load
    \/ DoSyncRun_StateDefault
    \/ DoSyncRun_Lookup
    \/ DoSyncRun_Selected
    \/ DoSyncRun_WriteState
    \/ DoSyncRun_WriteSchema
    \/ DoSyncRun_SyncStream
    \/ DoSyncRun_Done

Spec == Init /\ [][Next]_vars

\* the entry points are sequential code run by one thread: a statement that
\* can run does run (sync_stream and the singer calls are taken to return)
SpecFair == Spec /\ WF_vars(Next)

(***************************************************************************)
(* conversion.py: the type inference                                       *)
(*                                                                         *)
(* A row sample is a dict whose keys keep their insertion order: a         *)
(* sequence of <<key, value>> pairs with distinct keys.  A csv table is a  *)
(* sequence of rows, a row a sequence of cells, the empty cell being "".   *)
(* The sampled values are drawn from "2" (accepted by the integer, decimal *)
(* and string types), "1.5" (decimal and string) and "x" (string only).    *)
(***************************************************************************)
Values == {"2", "1.5", "x"}

\* the keys of a sample, in their order
KeyOrders == {<<>>, <<"a">>, <<"a", "b">>, <<"b", "a">>, <<"", "a">>}

Samples ==
    UNION { { [n \in DOMAIN ks |-> <<ks[n], vs[n]>>] : vs \in [DOMAIN ks -> Values] } :
            ks \in KeyOrders }

OverrideChoices == {<<"a">>}

\* table_spec: guess_types, date_overrides, string_overrides, each optional
TableSpecArgs ==
    { [k \in gk \cup dk \cup sk |->
          CASE k = "guess_types" -> g
            [] k = "date_overrides" -> d
            [] OTHER -> so] :
        gk \in {{}, {"guess_types"}}, g \in BOOLEAN,
        dk \in {{}, {"date_overrides"}}, d \in OverrideChoices,
        sk \in {{}, {"string_overrides"}}, so \in OverrideChoices }

Range(seq) == { seq[n] : n \in DOMAIN seq }

KeysOf(datum) == [n \in DOMAIN datum |-> datum[n][1]]

\* datum.get(key, restval) of csv.DictWriter, restval being ""
ValueOr(datum, key, restval) ==
    IF \E n \in DOMAIN datum : datum[n][1] = key
    THEN datum[CHOOSE n \in DOMAIN datum : datum[n][1] = key][2]
    ELSE restval

\* mutant: every item is appended, also one the header already holds
AppendNew_Always(header, keys) == header \o keys

\* lines 79-80: header.append(item) if item not in header
RECURSIVE AppendNew(_, _)
AppendNew(header, keys) ==
    IF keys = <<>>
    THEN header
    ELSE AppendNew(IF Head(keys) \in Range(header) THEN header
                   ELSE Append(header, Head(keys)),
                   Tail(keys))

\* lines 75-80: the unique list of headers
RECURSIVE UniqueHeaders(_, _)
UniqueHeaders(header, data) ==
    IF data = <<>>
    THEN header
    ELSE UniqueHeaders(AppendNew(header, KeysOf(Head(data))), Tail(data))

\* .strip('\r\n'): the lines without text at either end of the buffer go; a
\* line has no text exactly when its row has no field
RECURSIVE StripEmptyLines(_)
StripEmptyLines(lines) ==
    IF lines = <<>> THEN <<>>
    ELSE IF Head(lines) = <<>> THEN StripEmptyLines(Tail(lines))
    ELSE IF lines[Len(lines)] = <<>> THEN StripEmptyLines(SubSeq(lines, 1, Len(lines) - 1))
    ELSE lines

\* lines 82-85: csv.DictWriter(sio, fieldnames=header), writeheader() and
\* writerows(data): the header row, then one row per datum
DictWriter(header, data) ==
    LET row(datum) == [c \in DOMAIN header |-> ValueOr(datum, header[c], "")]
    IN  <<header>> \o [n \in DOMAIN data |-> row(data[n])]

\* _csv2bytesio(data): what was written, stripped
_csv2bytesio(data) ==
    StripEmptyLines(DictWriter(UniqueHeaders(<<>>, data), data))

\* messytables: the number of non-empty cells of a row
NonEmpty(row) == Cardinality({ c \in DOMAIN row : row[c] # "" })

\* messytables column_count_modal: the most frequent number (above 1) of
\* non-empty cells, the first seen winning a tie; 0 without such a row
column_count_modal(rows) ==
    LET lengths == { NonEmpty(rows[n]) : n \in DOMAIN rows } \ {0, 1}
        count(l) == Cardinality({ n \in DOMAIN rows : NonEmpty(rows[n]) = l })
        first(l) == CHOOSE n \in DOMAIN rows :
                        /\ NonEmpty(rows[n]) = l
                        /\ \A m \in DOMAIN rows : NonEmpty(rows[m]) = l => n <= m
    IN  IF lengths = {} THEN 0
        ELSE CHOOSE l \in lengths :
                \A o \in lengths :
                    \/ count(o) < count(l)
                    \/ (count(o) = count(l) /\ first(l) <= first(o))

\* messytables headers_guess(rows), tolerance 1: the first row with at least
\* modal - 1 non-empty cells, and its non-empty cells
headers_guess(rows) ==
    LET modal == column_count_modal(rows)
        fit == { n \in DOMAIN rows : NonEmpty(rows[n]) >= modal - 1 }
    IN  IF fit = {}
        THEN [offset |-> 0, headers |-> <<>>]
        ELSE LET n == CHOOSE m \in fit : \A o \in fit : m <= o
             IN  [offset |-> n - 1,
                  headers |-> SelectSeq(rows[n], LAMBDA v : v # "")]

\* row_set.sample with headers_processor(headers) and offset_processor(offset + 1)
\* registered: the rows after the header row, each at least as long as headers
SampleRows(rows, headers, offset) ==
    LET pad(row) == [c \in 1..(IF Len(row) >= Len(headers) THEN Len(row) ELSE Len(headers)) |->
                        IF c <= Len(row) THEN row[c] ELSE ""]
    IN  [n \in 1..(IF Len(rows) > offset + 1 THEN Len(rows) - (offset + 1) ELSE 0) |->
            pad(rows[n + offset + 1])]

\* messytables CellType.test of the types that accept a sampled value
Accepts(type, value) ==
    CASE type = "Integer" -> value \in {"2"}
      [] type = "Decimal" -> value \in {"2", "1.5"}
      [] OTHER -> TRUE

GuessingWeight(type) ==
    CASE type = "Integer" -> 6
      [] type = "Decimal" -> 4
      [] OTHER -> 1

\* messytables type_guess(rows, strict=True): per column the heaviest type
\* that accepts every non-empty value, String for a column without a value
type_guess(rows) ==
    LET width == IF rows = <<>> THEN 0
                 ELSE CHOOSE w \in { Len(rows[n]) : n \in DOMAIN rows } :
                        \A n \in DOMAIN rows : Len(rows[n]) <= w
        values(c) == { rows[n][c] : n \in { m \in DOMAIN rows : c <= Len(rows[m]) } } \ {""}
        fits(c) == { t \in {"Integer", "Decimal", "String"} :
                       \A v \in values(c) : Accepts(t, v) }
    IN  [c \in 1..width |->
            IF values(c) = {} THEN "String"
            ELSE CHOOSE t \in fits(c) :
                   \A o \in fits(c) : GuessingWeight(o) <= GuessingWeight(t)]

DateTimeDecl == [type |-> <<"null", "string">>, format |-> "date-time"]
StringDecl == [type |-> <<"null", "string">>]
IntegerDecl == [type |-> <<"null", "integer">>]
\* mutant: the decimal declaration does not admit null
NumberDecl_NotNullable == [type |-> <<"number">>]

NumberDecl == [type |-> <<"null", "number">>]

\* mutant: a guessed integer is declared like a guessed decimal
Declaration_IntegerAsNumber(header, header_type, table_spec_arg) ==
    LET date_overrides == Range(Get(table_spec_arg, "date_overrides", <<>>))
        string_overrides == Range(Get(table_spec_arg, "string_overrides", <<>>))
    IN  IF header \in date_overrides THEN DateTimeDecl
        ELSE IF header \in string_overrides THEN StringDecl
        ELSE IF header_type \in {"Integer", "Decimal"} THEN NumberDecl
        ELSE StringDecl

\* mutant: string_overrides is looked at before date_overrides
Declaration_StringFirst(header, header_type, table_spec_arg) ==
    LET date_overrides == Range(Get(table_spec_arg, "date_overrides", <<>>))
        string_overrides == Range(Get(table_spec_arg, "string_overrides", <<>>))
    IN  IF header \in string_overrides THEN StringDecl
        ELSE IF header \in date_overrides THEN DateTimeDecl
        ELSE IF header_type = "Integer" THEN IntegerDecl
        ELSE IF header_type = "Decimal" THEN NumberDecl
        ELSE StringDecl

\* lines 36-56: the declaration of one column
Declaration(header, header_type, table_spec_arg) ==
    LET date_overrides == Range(Get(table_spec_arg, "date_overrides", <<>>))
        string_overrides == Range(Get(table_spec_arg, "string_overrides", <<>>))
    IN  IF header \in date_overrides THEN DateTimeDecl
        ELSE IF header \in string_overrides THEN StringDecl
        ELSE IF header_type = "Integer" THEN IntegerDecl
        ELSE IF header_type = "Decimal" THEN NumberDecl
        ELSE StringDecl

\* the last position of a name in a list: a later assignment to schema[header]
\* replaces an earlier one
LastOf(names, upto, name) ==
    CHOOSE n \in 1..upto :
        /\ names[n] = name
        /\ \A m \in 1..upto : names[m] = name => m <= n

\* mutant: the final else of lines 53-56 is missing, so that a column that
\* is neither overridden nor guessed integer or decimal gets no entry
generate_schema_WithoutElse(data, table_spec_arg) ==
    LET rows == _csv2bytesio(data)
        guess == headers_guess(rows)
        headers == guess.headers
        sample == SampleRows(rows, headers, guess.offset)
    IN  IF Get(table_spec_arg, "guess_types", TRUE)
        THEN LET types == type_guess(sample)
                 zipped == IF Len(headers) <= Len(types) THEN Len(headers) ELSE Len(types)
                 date_overrides == Range(Get(table_spec_arg, "date_overrides", <<>>))
                 string_overrides == Range(Get(table_spec_arg, "string_overrides", <<>>))
             IN  [schema |->
                    [h \in { headers[n] : n \in { m \in 1..zipped :
                                \/ headers[m] \in date_overrides \cup string_overrides
                                \/ types[m] \in {"Integer", "Decimal"} } } |->
                        Declaration(h, types[LastOf(headers, zipped, h)], table_spec_arg)],
                  type_guess_calls |-> 1]
        ELSE [schema |-> [h \in Range(headers) |-> StringDecl],
              type_guess_calls |-> 0]

\* mutant: the overrides are applied also when guess_types is false
generate_schema_OverridesWhenNotGuessing(data, table_spec_arg) ==
    LET rows == _csv2bytesio(data)
        headers == headers_guess(rows).headers
    IN  [schema |-> [h \in Range(headers) |-> Declaration(h, "String", table_spec_arg)],
         type_guess_calls |-> 0]

\* generate_schema(samples, table_spec): the schema, and the number of calls
\* of type_guess made
generate_schema(data, table_spec_arg) ==
    LET rows == _csv2bytesio(data)
        guess == headers_guess(rows)
        headers == guess.headers
        sample == SampleRows(rows, headers, guess.offset)
    IN  IF Get(table_spec_arg, "guess_types", TRUE)
        THEN LET types == type_guess(sample)
                 zipped == IF Len(headers) <= Len(types) THEN Len(headers) ELSE Len(types)
             IN  [schema |->
                    [h \in { headers[n] : n \in 1..zipped } |->
                        Declaration(h, types[LastOf(headers, zipped, h)], table_spec_arg)],
                  type_guess_calls |-> 1]
        ELSE [schema |-> [h \in Range(headers) |-> StringDecl],
              type_guess_calls |-> 0]

InitSchema ==
    /\ samples \in SeqsUpTo(Samples, MaxSamples)
    /\ gs_table_spec \in TableSpecArgs
    /\ result = None
    /\ pc = "generate_schema"
    /\ config = [tables |-> <<>>]
    /\ catalogArg = None
    /\ stateArg = None
    /\ discovered = <<>>
    /\ file = None
    /\ entry = "none"
    /\ catalog = None
    /\ state = None
    /\ i = 0
    /\ table_spec = Unbound
    /\ log = <<>>
    /\ outcome = "none"
    /\ finished = <<>>

\* a call of generate_schema, lines 21-64
GenerateSchema ==
    /\ pc = "generate_schema"
    /\ result' = Some(generate_schema(samples, gs_table_spec))
    /\ pc' = "returned"
    /\ UNCHANGED <<sync_vars, samples, gs_table_spec>>

NextSchema == GenerateSchema

SpecSchema == InitSchema /\ [][NextSchema]_vars

(***************************************************************************)
(* Observations the claims are stated with                                 *)
(***************************************************************************)
CatStreams == IF catalog = None THEN <<>> ELSE catalog[1].streams

\* the calls made while the loop was at the k-th stream of the catalog
CallsAt(k) == SelectSeq(log, LAMBDA e : e.at = k)

OpNames(calls) == [j \in DOMAIN calls |-> calls[j].op]

\* some table of config["tables"] has table_name + table_suffix equal to the
\* tap_stream_id of the k-th stream
TableMatches(k) ==
    \E j \in DOMAIN config["tables"] :
        config["tables"][j].table_name
            \o (IF "table_suffix" \in DOMAIN config THEN config["table_suffix"] ELSE <<>>)
        = CatStreams[k].tap_stream_id

WarningSet ==
    "warning_if_no_files" \in DOMAIN config /\ config["warning_if_no_files"] = TRUE

WarningUnsetOrFalse ==
    "warning_if_no_files" \notin DOMAIN config \/ config["warning_if_no_files"] = FALSE

\* the `selected` flag under the root metadata entry of the k-th stream
RootFlags(k) ==
    LET raw == CatStreams[k].metadata IN
      { raw[j].metadata["selected"] :
          j \in { n \in DOMAIN raw : raw[n].breadcrumb = <<>>
                                     /\ "selected" \in DOMAIN raw[n].metadata } }

FlagAbsentOrTrue(k) == RootFlags(k) = {} \/ RootFlags(k) = {TRUE}

FlagFalse(k) == RootFlags(k) = {FALSE}

\* the loop has finished with the k-th stream
Completed(k) == k < i \/ (k = i /\ pc \in {"for", "exit"})

Running == entry \in {"do_sync", "do_sync_run"}

FullSync == <<"write_state", "write_schema", "sync_stream">>

Last(seq) == seq[Len(seq)]

(***************************************************************************)
(* C1: a stream that is matched and selected gets write_state(state), then *)
(* write_schema for that stream, then sync_stream for that stream, in this *)
(* order, with no call belonging to another stream in between.             *)
(***************************************************************************)
\* the calls expected for the stream the loop is at, by the position in the code
ExpectedSoFar ==
    CASE pc \in {"selected", "write_state"} -> <<>>
      [] pc = "write_schema" -> <<"write_state">>
      [] pc = "sync_stream" -> <<"write_state", "write_schema">>
      [] OTHER -> FullSync

C1_StateSchemaSyncOrder ==
    Running =>
      /\ \A p, q \in DOMAIN log : p < q => log[p].at <= log[q].at
      /\ \A k \in 1..i :
           (TableMatches(k) /\ FlagAbsentOrTrue(k)) =>
             LET calls == CallsAt(k) IN
               /\ OpNames(calls) = IF k < i THEN FullSync ELSE ExpectedSoFar
               /\ \A j \in DOMAIN calls :
                    /\ calls[j].op # "write_state"
                         => calls[j].stream_name = CatStreams[k].tap_stream_id
                    /\ calls[j].op = "sync_stream" => calls[j].state = calls[1].state

C1_Witness ==
    /\ Running
    /\ pc = "for"
    /\ i = 2
    /\ \A k \in 1..2 : TableMatches(k) /\ FlagAbsentOrTrue(k)
    /\ CatStreams[1].tap_stream_id # CatStreams[2].tap_stream_id
    /\ Len(log) = 6

(***************************************************************************)
(* C2: a stream without a matching table is skipped silently in tolerant   *)
(* mode (warning_if_no_files set): no write_state, no write_schema and no  *)
(* sync_stream for it, and the loop continues with the next stream.        *)
(***************************************************************************)
C2_TolerantSilentSkip ==
    Running =>
      \A k \in 1..i :
        (~ TableMatches(k) /\ WarningSet) =>
          /\ CallsAt(k) = <<>>
          /\ (k = i /\ pc = "exit") => outcome = "ok"

(***************************************************************************)
(* C3: a stream without a matching table aborts the run when               *)
(* warning_if_no_files is unset or false, whether or not the stream is     *)
(* selected: the run ends at that stream with "Expected table ... not      *)
(* found", nothing is emitted for it or for a later stream, and the calls  *)
(* made for earlier streams stay as they were.                             *)
(***************************************************************************)
AbortsAtUnmatched ==
    Running =>
      \A k \in 1..i :
        (~ TableMatches(k) /\ WarningUnsetOrFalse) =>
          /\ i = k
          /\ pc = "exit"
          /\ outcome = "Expected table not found"
          /\ \A j \in DOMAIN log : log[j].at < k
          /\ Last(finished) =
               Run(entry, "Expected table not found", log, state, k)

\* the step that takes the loop to an unmatched stream makes no call
LookupKeepsLog ==
    (/\ Running
     /\ pc = "for"
     /\ i < Len(CatStreams)
     /\ ~ TableMatches(i + 1)
     /\ WarningUnsetOrFalse)
    => (log' = log /\ state' = state /\ pc' = "exit")

C3_FatalWhenNotTolerant == []AbortsAtUnmatched /\ [][LookupKeepsLog]_vars

C3_Witness ==
    /\ Running
    /\ i = 2
    /\ ~ TableMatches(2)
    /\ WarningUnsetOrFalse
    /\ FlagFalse(2)
    /\ pc = "exit"
    /\ Len(log) = 3

(***************************************************************************)
(* C4: a matched stream is synchronized (state emitted, schema emitted,    *)
(* extraction invoked) if and only if the `selected` flag under its root   *)
(* metadata entry is absent or true; with the flag false nothing is        *)
(* emitted for it and the loop goes on to the next stream.                 *)
(***************************************************************************)
C4_SyncedIffSelected ==
    Running =>
      \A k \in 1..i :
        TableMatches(k) =>
          /\ Completed(k) =>
               /\ (OpNames(CallsAt(k)) = FullSync) <=> FlagAbsentOrTrue(k)
               /\ FlagFalse(k) => CallsAt(k) = <<>>
          /\ (FlagFalse(k) /\ k = i) =>
               /\ pc \in {"selected", "for", "exit"}
               /\ pc = "exit" => (outcome = "ok" /\ i = Len(CatStreams))

C4_Witness ==
    /\ Running
    /\ i = 2
    /\ pc = "for"
    /\ TableMatches(1) /\ FlagFalse(1)
    /\ TableMatches(2) /\ RootFlags(2) = {}
    /\ OpNames(log) = FullSync

(***************************************************************************)
(* C5 (as stated): the run state is re-emitted after each stream completes *)
(* or is skipped: once the loop has finished with a stream, a write_state  *)
(* carrying the current run state is the last call made, before the next   *)
(* stream starts or the run ends.                                          *)
(***************************************************************************)
C5_StateReemittedAfterEachStream ==
    (Running /\ i >= 1 /\ (pc = "for" \/ (pc = "exit" /\ outcome = "ok"))) =>
      /\ log # <<>>
      /\ Last(log).op = "write_state"
      /\ Last(log).state = state

(***************************************************************************)
(* C5 (amended): the orchestrator emits the run state only as the first    *)
(* call of a stream that passes the selection check, carrying the state as *)
(* the earlier extractions left it and directly followed by that stream's  *)
(* write_schema; once the loop has finished with a stream, the last call   *)
(* made, if any, is a sync_stream: no write_state follows an extraction or *)
(* a skipped stream unless a later stream passes the selection check.      *)
(***************************************************************************)
\* the state the run starts with
StartState == IF entry = "do_sync_run" /\ stateArg = None THEN Some({}) ELSE stateArg

C5_StateEmittedOnlyBeforeSchema ==
    Running =>
      /\ \A p \in DOMAIN log :
           log[p].op = "write_state" =>
             /\ p = 1 => log[p].state = StartState
             /\ p > 1 =>
                  /\ log[p - 1].op = "sync_stream"
                  /\ log[p - 1].at < log[p].at
                  /\ log[p].state =
                       Some(log[p - 1].state[1] \cup {log[p - 1].stream_name})
             /\ p < Len(log) =>
                  /\ log[p + 1].op = "write_schema"
                  /\ log[p + 1].at = log[p].at
             /\ p = Len(log) => (pc = "write_schema" /\ log[p].state = state)
      /\ \A k \in 1..i :
           Len(SelectSeq(CallsAt(k), LAMBDA e : e.op = "write_state"))
             = IF /\ FlagAbsentOrTrue(k)
                  /\ (k < i \/ pc \notin {"selected", "write_state"})
                  /\ ~ (k = i /\ outcome = "Expected table not found")
               THEN 1 ELSE 0
      /\ (i >= 1 /\ (pc = "for" \/ (pc = "exit" /\ outcome = "ok"))) =>
           (log = <<>> \/ Last(log).op = "sync_stream")

C5_Witness ==
    /\ Running
    /\ pc = "exit" /\ outcome = "ok"
    /\ i = 2
    /\ FlagFalse(2)
    /\ OpNames(log) = FullSync
    /\ state # log[1].state

(***************************************************************************)
(* C6: do_sync and do_sync_run implement identical per-stream logic: given *)
(* the same config, the same supplied catalog and the same supplied state, *)
(* both make the same calls with the same arguments and end the same way.  *)
(***************************************************************************)
C6_EntryPointsAgree ==
    (Len(finished) = 2 /\ finished[1].entry = "do_sync"
                       /\ finished[2].entry = "do_sync_run") =>
      /\ finished[2].log = finished[1].log
      /\ finished[2].outcome = finished[1].outcome
      /\ finished[2].state = finished[1].state
      /\ finished[2].at = finished[1].at

C6_Witness ==
    /\ Len(finished) = 2
    /\ finished[1].entry = "do_sync"
    /\ finished[2].entry = "do_sync_run"
    /\ Len(finished[1].log) = 6
    /\ finished[1].outcome = "ok"

(***************************************************************************)
(* C7: do_sync_run called without a catalog synchronizes exactly the       *)
(* streams the discovery of the same call produced: the catalog read back  *)
(* from catalog.json is the one that discovery wrote, never a file left by *)
(* an earlier run, also when discovery finds no stream in tolerant mode.   *)
(***************************************************************************)
C7_LoadsOwnDiscovery ==
    (entry = "do_sync_run" /\ catalogArg = None /\ catalog # None) =>
      catalog = Some([streams |-> discovered])

(***************************************************************************)
(* C8: do_discover raises "No streams found" exactly when discovery yields *)
(* no stream and warning_if_no_files is unset or false; with no stream and *)
(* warning_if_no_files set it returns normally; with at least one stream   *)
(* it writes {"streams": streams} to catalog.json.                         *)
(***************************************************************************)
\* do_discover, called at line 108, has ended
DiscoverEnded == entry = "do_sync_run" /\ catalogArg = None /\ pc # "discover"

DiscoverRaised == outcome \in {"No streams found", "write failed"}

Returned == result # None

DetectedHeaders == headers_guess(_csv2bytesio(samples)).headers

DateOverrides ==
    IF "date_overrides" \in DOMAIN gs_table_spec
    THEN { gs_table_spec["date_overrides"][n] : n \in DOMAIN gs_table_spec["date_overrides"] }
    ELSE {}

GuessTypesOn ==
    "guess_types" \notin DOMAIN gs_table_spec \/ gs_table_spec["guess_types"] = TRUE

GuessTypesOff ==
    "guess_types" \in DOMAIN gs_table_spec /\ gs_table_spec["guess_types"] = FALSE

\* every value sampled for column a is the integer "2", in two samples
ColumnAIsInteger ==
    /\ Len(samples) = 2
    /\ \A n \in DOMAIN samples :
         \E m \in DOMAIN samples[n] : samples[n][m] = <<"a", "2">>

(***************************************************************************)
(* C9 (as stated): a detected header column listed in date_overrides       *)
(* always yields {type:[null,string], format:date-time}, whatever its      *)
(* sampled values and whatever the other settings of the table_spec.       *)
(***************************************************************************)
C9_DateOverrideAlways ==
    Returned =>
      \A h \in Range(DetectedHeaders) :
        h \in DateOverrides =>
          /\ h \in DOMAIN result[1].schema
          /\ result[1].schema[h] = [type |-> <<"null", "string">>, format |-> "date-time"]

(***************************************************************************)
(* C9 (amended): when guess_types is true or absent, a detected header     *)
(* column listed in date_overrides always yields {type:[null,string],      *)
(* format:date-time}, whatever its sampled values and whatever the         *)
(* string_overrides of the table_spec.                                     *)
(***************************************************************************)
C9_DateOverrideWhenGuessing ==
    (Returned /\ GuessTypesOn) =>
      \A h \in Range(DetectedHeaders) :
        h \in DateOverrides =>
          /\ h \in DOMAIN result[1].schema
          /\ result[1].schema[h] = [type |-> <<"null", "string">>, format |-> "date-time"]

C9_Witness ==
    /\ Returned
    /\ GuessTypesOn
    /\ ColumnAIsInteger
    /\ "a" \in DateOverrides
    /\ "string_overrides" \in DOMAIN gs_table_spec
    /\ result[1].schema["a"] = [type |-> <<"null", "string">>, format |-> "date-time"]

(***************************************************************************)
(* C10: when guess_types is false, every column of the detected header is  *)
(* declared exactly {type:[null,string]}, regardless of the sample content *)
(* and of date_overrides and string_overrides, and no type guessing runs.  *)
(***************************************************************************)
C10_AllStringWhenNotGuessing ==
    (Returned /\ GuessTypesOff) =>
      /\ DOMAIN result[1].schema = Range(DetectedHeaders)
      /\ \A h \in DOMAIN result[1].schema :
           result[1].schema[h] = [type |-> <<"null", "string">>]
      /\ result[1].type_guess_calls = 0

C10_Witness ==
    /\ Returned
    /\ GuessTypesOff
    /\ ColumnAIsInteger
    /\ "a" \in DateOverrides
    /\ DOMAIN result[1].schema = {"a", "b"}
    /\ result[1].schema["a"] = [type |-> <<"null", "string">>]

(***************************************************************************)
(* C11: when guess_types is true or absent, each column is decided by a    *)
(* fixed priority: a column in date_overrides gets the date-time string    *)
(* declaration even if it is also in string_overrides; else a column in    *)
(* string_overrides gets nullable string whatever its guessed type; else   *)
(* the guessed type is mapped integer -> [null,integer], decimal ->        *)
(* [null,number], anything else -> [null,string].                          *)
(***************************************************************************)
StringOverrides ==
    IF "string_overrides" \in DOMAIN gs_table_spec
    THEN { gs_table_spec["string_overrides"][n] : n \in DOMAIN gs_table_spec["string_overrides"] }
    ELSE {}

C11_OverridePriority ==
    (Returned /\ GuessTypesOn) =>
      LET rows == _csv2bytesio(samples)
          guess == headers_guess(rows)
          detected == guess.headers
          guessed == type_guess(SampleRows(rows, detected, guess.offset))
      IN  \A n \in DOMAIN detected :
            LET h == detected[n] IN
              /\ h \in DOMAIN result[1].schema
              /\ n <= Len(guessed)
              /\ result[1].schema[h] =
                   IF h \in DateOverrides
                   THEN [type |-> <<"null", "string">>, format |-> "date-time"]
                   ELSE IF h \in StringOverrides
                   THEN [type |-> <<"null", "string">>]
                   ELSE CASE guessed[n] = "Integer" -> [type |-> <<"null", "integer">>]
                          [] guessed[n] = "Decimal" -> [type |-> <<"null", "number">>]
                          [] OTHER -> [type |-> <<"null", "string">>]

\* column a is in both override lists; column b holds "2" and "1.5"
C11_Witness ==
    /\ Returned
    /\ GuessTypesOn
    /\ "a" \in DateOverrides /\ "a" \in StringOverrides
    /\ samples = << << <<"a", "2">>, <<"b", "2">> >>, << <<"b", "1.5">>, <<"a", "2">> >> >>
    /\ result[1].schema["a"] = [type |-> <<"null", "string">>, format |-> "date-time"]
    /\ result[1].schema["b"] = [type |-> <<"null", "number">>]

C12_WitnessNoRows ==
    /\ Returned
    /\ samples = <<>>
    /\ DetectedHeaders = <<>>
    /\ DOMAIN result[1].schema = {}

\* the keys of all the samples
AllKeys == UNION { { samples[n][m][1] : m \in DOMAIN samples[n] } : n \in DOMAIN samples }

\* the first sample holding key k, and the place of k in it
FirstSample(k) ==
    CHOOSE n \in DOMAIN samples :
      /\ \E m \in DOMAIN samples[n] : samples[n][m][1] = k
      /\ \A n2 \in 1..(n - 1) : \A m \in DOMAIN samples[n2] : samples[n2][m][1] # k

PlaceInFirstSample(k) ==
    CHOOSE m \in DOMAIN samples[FirstSample(k)] : samples[FirstSample(k)][m][1] = k

AppearsBefore(k1, k2) ==
    \/ FirstSample(k1) < FirstSample(k2)
    \/ FirstSample(k1) = FirstSample(k2) /\ PlaceInFirstSample(k1) < PlaceInFirstSample(k2)

(***************************************************************************)
(* C13: the header _csv2bytesio computes holds every key of every sample   *)
(* exactly once and nothing else, in the order in which the keys first     *)
(* appear; one row is written per sample, in sample order, holding the     *)
(* sample's value for each header column and the empty cell where the      *)
(* sample lacks the column.  Unless the header is empty, the returned      *)
(* buffer holds exactly these rows.                                        *)
(***************************************************************************)
C13_HeaderIsFirstAppearanceUnion ==
    Returned =>
      LET header == UniqueHeaders(<<>>, samples)
          written == DictWriter(header, samples)
      IN  /\ { header[c] : c \in DOMAIN header } = AllKeys
          /\ \A c, d \in DOMAIN header : c # d => header[c] # header[d]
          /\ \A c, d \in DOMAIN header : c < d => AppearsBefore(header[c], header[d])
          /\ Len(written) = Len(samples) + 1
          /\ written[1] = header
          /\ \A n \in DOMAIN samples :
               /\ Len(written[n + 1]) = Len(header)
               /\ \A c \in DOMAIN header :
                    written[n + 1][c] =
                      IF \E m \in DOMAIN samples[n] : samples[n][m][1] = header[c]
                      THEN samples[n][CHOOSE m \in DOMAIN samples[n] :
                                        samples[n][m][1] = header[c]][2]
                      ELSE ""
          /\ header # <<>> => _csv2bytesio(samples) = written

\* the second sample lists the keys in another order and brings a new one
C13_Witness ==
    /\ Returned
    /\ samples = << << <<"a", "2">> >>, << <<"b", "1.5">>, <<"a", "x">> >> >>
    /\ _csv2bytesio(samples) = << <<"a", "b">>, <<"2", "">>, <<"x", "1.5">> >>

(***************************************************************************)
(* C14: every declaration of a schema returned by generate_schema is one   *)
(* of the four shapes date-time string, string, integer and number, each   *)
(* of them admitting null, whether the types are guessed or not and        *)
(* whether the column is overridden or not.                                *)
(***************************************************************************)
C14_FourNullableShapes ==
    Returned =>
      \A h \in DOMAIN result[1].schema :
        /\ result[1].schema[h] \in
             { [type |-> <<"null", "string">>, format |-> "date-time"],
               [type |-> <<"null", "string">>],
               [type |-> <<"null", "integer">>],
               [type |-> <<"null", "number">>] }
        /\ \E n \in DOMAIN result[1].schema[h].type : result[1].schema[h].type[n] = "null"

\* an overridden column next to a column guessed decimal
C14_Witness ==
    /\ Returned
    /\ gs_table_spec = [string_overrides |-> <<"a">>]
    /\ samples = << << <<"a", "2">>, <<"b", "1.5">> >> >>
    /\ result[1].schema["a"] = [type |-> <<"null", "string">>]
    /\ result[1].schema["b"] = [type |-> <<"null", "number">>]

\* the first table of config["tables"] whose table_name + table_suffix is the
\* tap_stream_id of the k-th stream
FirstTableFor(k) ==
    CHOOSE j \in DOMAIN config["tables"] :
      /\ config["tables"][j].table_name
             \o (IF "table_suffix" \in DOMAIN config THEN config["table_suffix"] ELSE <<>>)
         = CatStreams[k].tap_stream_id
      /\ \A j2 \in 1..(j - 1) :
           config["tables"][j2].table_name
               \o (IF "table_suffix" \in DOMAIN config THEN config["table_suffix"] ELSE <<>>)
           # CatStreams[k].tap_stream_id

(***************************************************************************)
(* C15: every sync_stream call receives the table spec resolved for the    *)
(* stream it extracts, the first table of config["tables"] whose           *)
(* table_name + table_suffix is the stream's tap_stream_id; never the      *)
(* table spec of another stream, never an unresolved one.                  *)
(***************************************************************************)
C15_SyncStreamGetsOwnTableSpec ==
    Running =>
      \A n \in DOMAIN log :
        log[n].op = "sync_stream" =>
          /\ TableMatches(log[n].at)
          /\ log[n].table_spec = FirstTableFor(log[n].at)

\* the stream loop has been entered
LoopEntered ==
    \/ pc \in {"for", "selected", "write_state", "write_schema", "sync_stream"}
    \/ pc = "exit" /\ outcome \in {"ok", "Expected table not found", "UnboundLocalError"}

\* the state the run started with, changed by the extractions logged before
\* the p-th call and by nothing else
ThreadedState(p) ==
    Some(StartState[1] \cup { log[q].stream_name :
                                q \in { r \in 1..(p - 1) : log[r].op = "sync_stream" } })

(***************************************************************************)
(* C16: one state mapping is threaded through the run.  The state given    *)
(* to every write_state and to every sync_stream is the state the run      *)
(* started with (the empty mapping when do_sync_run got none) as changed   *)
(* by the extractions of all the earlier streams, and by nothing else; so  *)
(* is the state the orchestrator holds at every point of the loop.         *)
(***************************************************************************)
C16_OneStateThreaded ==
    Running =>
      /\ \A p \in DOMAIN log :
           log[p].op \in {"write_state", "sync_stream"} => log[p].state = ThreadedState(p)
      /\ LoopEntered => state = ThreadedState(Len(log) + 1)
      /\ (LoopEntered /\ entry = "do_sync_run" /\ stateArg = None /\ log # <<>>) =>
           log[1].state = Some({})

\* do_sync_run without a state, two streams extracted
C16_Witness ==
    /\ entry = "do_sync_run"
    /\ stateArg = None
    /\ pc = "exit"
    /\ Len(log) = 6
    /\ log[1].op = "write_state" /\ log[1].state = Some({})
    /\ log[3].op = "sync_stream" /\ log[6].op = "sync_stream"
    /\ log[3].stream_name # log[6].stream_name
    /\ log[4].op = "write_state" /\ log[4].state = Some({log[3].stream_name})
    /\ state = Some({log[3].stream_name, log[6].stream_name})

\* a supplied state is kept and extended
C16_WitnessSupplied ==
    /\ entry = "do_sync_run"
    /\ stateArg = Some({<<"users">>})
    /\ Len(log) = 3
    /\ log[1].state = Some({<<"users">>})
    /\ state = Some({<<"users">>, log[3].stream_name})

\* streams are taken in catalog order, one at a time, each at most once
InCatalogOrderOnce ==
    Running =>
      /\ i <= Len(CatStreams)
      /\ \A p, q \in DOMAIN log :
           p < q =>
             /\ log[p].at <= log[q].at
             /\ log[p].at = log[q].at => log[p].op # log[q].op
      /\ \A p \in DOMAIN log :
           /\ log[p].at \in 1..i
           /\ log[p].op \in {"write_schema", "sync_stream"} =>
                log[p].stream_name = CatStreams[log[p].at].tap_stream_id
      /\ pc \in {"selected", "write_state"} => \A p \in DOMAIN log : log[p].at < i

\* a run that ends without an exception has been through the whole catalog
EndsAfterLastStream ==
    (Running /\ pc = "exit" /\ outcome = "ok") =>
      /\ i = Len(CatStreams)
      /\ \A k \in 1..Len(CatStreams) : Completed(k)

\* the loop goes from one stream to the next one
OneStreamAtATime ==
    (Running /\ Running' /\ entry' = entry /\ i' # i) => (pc = "for" /\ i' = i + 1)

(***************************************************************************)
(* C17: the streams are processed strictly in catalog order and one at a   *)
(* time: all the calls made for a stream come before any call made for a   *)
(* later stream, no stream is handled twice, the loop advances by one      *)
(* stream at a time, every run that has begun comes to its end, and a run  *)
(* that ends without an exception has handled every stream of the catalog. *)
(***************************************************************************)
C17_CatalogOrderToTheEnd ==
    /\ [](InCatalogOrderOnce /\ EndsAfterLastStream)
    /\ [][OneStreamAtATime]_vars
    /\ (Running /\ pc # "exit") ~> (pc = "exit")

\* both streams of the catalog extracted, the first before the second
C17_Witness ==
    /\ entry = "do_sync"
    /\ pc = "exit"
    /\ outcome = "ok"
    /\ i = 2
    /\ [p \in DOMAIN log |-> log[p].at] = <<1, 1, 1, 2, 2, 2>>
    /\ log[3].stream_name # log[6].stream_name

====
